---- MODULE Spec2Model ----
(***************************************************************************)
(* Model of the AppImageLauncher FUSE filesystem (src/fusefs/fs.cpp):      *)
(* the registry of registered AppImages, the path resolver and the         *)
(* request handlers getattr, readdir, open, read, write, truncate and      *)
(* release, registerAppImage run by several threads at once, and startup   *)
(* (the constructor of PrivateData and AppImageLauncherFS::run).           *)
(*                                                                         *)
(* Strings are sequences of one-character strings, so that parsing and     *)
(* formatting are computed character by character as the code does.        *)
(***************************************************************************)
EXTENDS Integers, Sequences, FiniteSets, TLC

(***************************************************************************)
(* Bounds of the model.                                                    *)
(***************************************************************************)
\* registrations stop once the counter has reached this value
MaxCounter == 2
\* length of the backing files' content
FileLen == 13
\* largest buffer size of a read request
MaxBufSize == 13

(***************************************************************************)
(* Program constants.                                                      *)
(***************************************************************************)
magicBytesBegin == 8
magicBytesEnd == 10
IntMax == 2147483647
FilenameWidth == 4
\* file descriptors 0, 1, 2 are stdin, stdout, stderr
FirstFd == 3

(***************************************************************************)
(* Strings.                                                                *)
(***************************************************************************)
Digit == <<"0", "1", "2", "3", "4", "5", "6", "7", "8", "9">>

DigitChars == {Digit[i] : i \in 1..10}

DigitVal(c) == (CHOOSE i \in 1..10 : Digit[i] = c) - 1

\* isspace() of the C locale
IsSpace(c) == c \in {" ", "\t", "\n", "\r", "\f"}

RECURSIVE Digits(_)
\* decimal digits of a natural number (operator<< on an int)
Digits(n) == IF n < 10 THEN <<Digit[n + 1]>>
             ELSE Digits(n \div 10) \o <<Digit[(n % 10) + 1]>>

IntToString(n) == IF n < 0 THEN <<"-">> \o Digits(0 - n) ELSE Digits(n)

RECURSIVE PadLeft(_, _, _)
\* std::setfill(c) << std::setw(w): fill characters go to the left
PadLeft(s, w, c) == IF Len(s) >= w THEN s ELSE PadLeft(<<c>> \o s, w, c)

Suffix == <<".", "A", "p", "p", "I", "m", "a", "g", "e">>

generateFilenameForId(id) == PadLeft(IntToString(id), FilenameWidth, "0") \o Suffix

RECURSIVE CountChar(_, _)
\* std::count(begin, end, c)
CountChar(s, c) == IF s = <<>> THEN 0
                   ELSE (IF Head(s) = c THEN 1 ELSE 0) + CountChar(Tail(s), c)

RECURSIVE UpTo(_, _)
\* strsep(&p, delim): the token before the first delimiter (the whole string
\* when there is none)
UpTo(s, c) == IF s = <<>> \/ Head(s) = c THEN <<>>
              ELSE <<Head(s)>> \o UpTo(Tail(s), c)

RECURSIVE SkipSpace(_)
SkipSpace(s) == IF s # <<>> /\ IsSpace(Head(s)) THEN SkipSpace(Tail(s)) ELSE s

RECURSIVE ParseDigits(_, _, _, _)
\* strtol's digit loop: acc is the negated value so far (so that INT_MIN is
\* representable), seen whether a digit was consumed, limit the smallest
\* negated value allowed; a value that leaves the range of int is reported as
\* out of range
ParseDigits(s, acc, seen, limit) ==
    IF s = <<>> \/ Head(s) \notin DigitChars
    THEN [err |-> IF seen THEN "none" ELSE "invalid_argument", val |-> acc]
    ELSE IF acc < 0 - (IntMax \div 10)
         THEN [err |-> "out_of_range", val |-> 0]
         ELSE IF 10 * acc < limit + DigitVal(Head(s))
              THEN [err |-> "out_of_range", val |-> 0]
              ELSE ParseDigits(Tail(s), 10 * acc - DigitVal(Head(s)), TRUE, limit)

\* std::stoi(s): leading white space, an optional sign, decimal digits;
\* whatever follows the digits is ignored
stoi(s) ==
    LET t == SkipSpace(s)
        neg == t # <<>> /\ Head(t) = "-"
        u == IF t # <<>> /\ Head(t) \in {"+", "-"} THEN Tail(t) ELSE t
        r == ParseDigits(u, 0, FALSE, IF neg THEN (0 - IntMax) - 1 ELSE 0 - IntMax)
    IN  IF r.err = "none" /\ ~neg THEN [err |-> "none", val |-> 0 - r.val] ELSE r

(***************************************************************************)
(* The real filesystem the registered AppImages live on.                   *)
(*                                                                         *)
(* The working directory of the process is the root directory; it holds    *)
(* the entries FileNames.  Each is absent ("none"), a readable regular     *)
(* file ("file"), a directory ("dir") or a regular file the process has no *)
(* permission to open ("locked").                                          *)
(***************************************************************************)
FileNames == {"a", "b"}

Kinds == {"none", "file", "dir", "locked"}

\* the kinds each name takes in the model
KindsOf(f) == IF f = "a" THEN Kinds ELSE {"none", "file"}

Cwd == <<"/">>

Drop(s, k) == IF k >= Len(s) THEN <<>> ELSE SubSeq(s, k + 1, Len(s))

RECURSIVE Components(_)
\* the names a path walks through; empty names and "." stay where they are
Components(s) ==
    IF s = <<>> THEN <<>>
    ELSE LET c == UpTo(s, "/")
         IN  (IF c = <<>> \/ c = <<".">> THEN <<>> ELSE <<c>>)
                 \o Components(Drop(s, Len(c) + 1))

\* a path ending in "/" or "/." names a directory or nothing
MustBeDir(s) == /\ s # <<>>
                /\ \/ s[Len(s)] = "/"
                   \/ s[Len(s)] = "." /\ (Len(s) = 1 \/ s[Len(s) - 1] = "/")

\* stat(2) of a path, absolute or relative to the working directory
Status(path, d) ==
    IF path = <<>> THEN "none"
    ELSE LET cs == Components(path)
         IN  IF cs = <<>> THEN "dir"
             ELSE IF Len(cs) = 1 /\ Len(cs[1]) = 1 /\ cs[1][1] \in FileNames
                  THEN LET k == d[cs[1][1]]
                       IN  IF MustBeDir(path) /\ k # "dir" THEN "none" ELSE k
                  ELSE "none"

\* the file a path leads to ("/" for the root directory, "" for none)
Target(path) ==
    LET cs == Components(path)
    IN  IF path = <<>> THEN ""
        ELSE IF cs = <<>> THEN "/"
        ELSE IF Len(cs) = 1 /\ Len(cs[1]) = 1 /\ cs[1][1] \in FileNames
             THEN cs[1][1] ELSE ""

\* boost::filesystem::exists
exists(path, d) == Status(path, d) # "none"

\* boost::filesystem::is_regular_file
is_regular_file(path, d) == Status(path, d) \in {"file", "locked"}

\* whether ::open(path, O_RDONLY) succeeds
CanOpen(path, d) == Status(path, d) \in {"file", "dir"}

\* boost::filesystem::absolute: an absolute path is returned as it is, a
\* relative one is appended to the working directory; nothing is normalised
absolute(path) == IF path # <<>> /\ Head(path) = "/" THEN path ELSE Cwd \o path

\* the canonical path of the glossary: absolute and resolved
Canonical(path) ==
    LET cs == Components(path)
        RECURSIVE Join(_)
        Join(q) == IF q = <<>> THEN <<>> ELSE <<"/">> \o Head(q) \o Join(Tail(q))
    IN  IF cs = <<>> THEN <<"/">> ELSE Join(cs)

\* content of the files: byte p of file f (never zero)
FileByte(f, p) == IF f = "a" THEN p + 1 ELSE p + 101

(***************************************************************************)
(* File descriptors of the process: fds maps each open descriptor to the   *)
(* file it was opened on.                                                  *)
(***************************************************************************)
LowestFreeFd(fds) ==
    CHOOSE n \in FirstFd..(FirstFd + Cardinality(DOMAIN fds)) :
        /\ n \notin DOMAIN fds
        /\ \A m \in FirstFd..(n - 1) : m \in DOMAIN fds

OpenFd(fds, path) == fds @@ (LowestFreeFd(fds) :> Target(path))

CloseFd(fds, fd) == [n \in DOMAIN fds \ {fd} |-> fds[n]]

(***************************************************************************)
(* RegisteredAppImage and the registry.                                    *)
(***************************************************************************)
\* RegisteredAppImage(): the entry operator[] inserts for a missing key
DefaultEntry == [id |-> 0 - 1, path |-> <<>>, fd |-> 0 - 1]

\* a test that finds every backing file missing
checkExistsNever(e, d) == FALSE

\* RegisteredAppImage::checkExistsOnDisk
checkExistsOnDisk(e, d) == is_regular_file(e.path, d)

\* unordered_map::erase(id); the entry's destructor closes its descriptor
Erase(reg, fds, id) ==
    [reg |-> [i \in DOMAIN reg \ {id} |-> reg[i]],
     fds |-> IF id \in DOMAIN reg /\ reg[id].fd >= 0
             THEN CloseFd(fds, reg[id].fd) ELSE fds]

\* unordered_map::operator[]: a missing key gets a default-constructed entry
Subscript(reg, id) == IF id \in DOMAIN reg THEN reg ELSE reg @@ (id :> DefaultEntry)

\* the comparison of the duplicate search: the path as given against the
\* stored path
SamePath(path, e) == path = e.path

\* a counter that is not advanced
NextCounterStuck(c) == c

\* counter++
NextCounter(c) == c + 1

\* an existence check that lets every path pass
PathExistsAlways(path, d) == TRUE

\* the existence check at the head of registerAppImage
PathExists(path, d) == exists(path, d)

\* registerAppImage(path): the set of possible outcomes (the duplicate search
\* returns the first match in the map's unspecified iteration order)
registerAppImage(path, reg, ctr, fds, d) ==
    IF ~PathExists(path, d)
    THEN {[ret |-> "FileNotFoundError", id |-> 0 - 1,
           reg |-> reg, ctr |-> ctr, fds |-> fds]}
    ELSE LET found == {i \in DOMAIN reg : SamePath(path, reg[i])}
         IN  IF found # {}
             THEN {[ret |-> "AppImageAlreadyRegisteredError", id |-> i,
                    reg |-> reg, ctr |-> ctr, fds |-> fds] : i \in found}
             ELSE IF ~CanOpen(absolute(path), d)
                  \* the temporary's constructor throws after counter++
                  THEN {[ret |-> "CouldNotOpenFileError", id |-> 0 - 1,
                         reg |-> reg, ctr |-> NextCounter(ctr), fds |-> fds]}
                  ELSE LET id == ctr
                           \* the temporary opens the file, the map's copy
                           \* opens it again, the temporary closes its own
                           tmpFds == OpenFd(fds, absolute(path))
                           tmpFd == LowestFreeFd(fds)
                           cpyFd == LowestFreeFd(tmpFds)
                           e == [id |-> id, path |-> absolute(path), fd |-> cpyFd]
                       IN  {[ret |-> "ok", id |-> id,
                             \* emplace leaves an existing key alone
                             reg |-> IF id \in DOMAIN reg THEN reg
                                     ELSE reg @@ (id :> e),
                             ctr |-> NextCounter(ctr),
                             fds |-> IF id \in DOMAIN reg THEN fds
                                     ELSE CloseFd(OpenFd(tmpFds, absolute(path)), tmpFd)]}

\* a comparison that accepts every name whose numeral parses
IsCanonicalNameAny(path, id) == TRUE

\* the comparison of the requested name with the generated one
IsCanonicalName(path, id) == path = <<"/">> \o generateFilenameForId(id)

\* a lookup that leaves the stale entry where it is
EvictOnLookupSkipped(reg, fds, id) == [reg |-> reg, fds |-> fds]

\* the eviction of mapPathToRegisteredAppImage
EvictOnLookup(reg, fds, id) == Erase(reg, fds, id)

\* the first half of mapPathToRegisteredAppImage: the id a path names, or
\* the exception thrown before the registry is touched
ResolveId(path) ==
    LET firstPart == UpTo(path, ".")
        fail(what) == [ret |-> what, id |-> 0 - 1]
    IN  IF firstPart = <<>> \/ Head(firstPart) # "/"
        THEN fail("InvalidPathError")
        ELSE LET r == stoi(Tail(firstPart))
             IN  IF r.err = "invalid_argument"
                 THEN fail("CouldNotFindRegisteredAppImageError")
                 ELSE IF r.err = "out_of_range"
                 THEN fail("std::out_of_range")
                 ELSE IF ~IsCanonicalName(path, r.val)
                 THEN fail("CouldNotFindRegisteredAppImageError")
                 ELSE [ret |-> "ok", id |-> r.val]

\* mapPathToRegisteredAppImage(path)
mapPathToRegisteredAppImage(path, reg, fds, d) ==
    LET p == ResolveId(path)
    IN  IF p.ret # "ok"
        THEN [ret |-> p.ret, id |-> 0 - 1, reg |-> reg, fds |-> fds]
        ELSE LET reg1 == Subscript(reg, p.id)
             IN  IF ~checkExistsOnDisk(reg1[p.id], d)
                 THEN LET ev == EvictOnLookup(reg1, fds, p.id)
                      IN  [ret |-> "CouldNotFindRegisteredAppImageError",
                           id |-> 0 - 1, reg |-> ev.reg, fds |-> ev.fds]
                 ELSE [ret |-> "ok", id |-> p.id, reg |-> reg1, fds |-> fds]

(***************************************************************************)
(* The listing (map file) and the root directory.                          *)
(***************************************************************************)
Arrow == <<" ", "-", ">", " ">>

\* one line of the map file
MapLine(i, e) == generateFilenameForId(i) \o Arrow \o e.path \o <<"\n">>

\* the orders an unordered_map may be iterated in
Orders(S) == {f \in [1..Cardinality(S) -> S] : \A j, k \in DOMAIN f : j # k => f[j] # f[k]}

RECURSIVE ConcatLines(_, _, _)
ConcatLines(reg, order, k) ==
    IF k > Len(order) THEN <<>>
    ELSE MapLine(order[k], reg[order[k]]) \o ConcatLines(reg, order, k + 1)

\* a scan that finds no entry stale
idsToRemoveNone(reg, d) == {}

\* the entries generateTextMap collects in idsToRemove
idsToRemove(reg, d) == {i \in DOMAIN reg : ~checkExistsOnDisk(reg[i], d)}

RECURSIVE EraseAll(_, _, _)
EraseAll(reg, fds, ids) ==
    IF ids = {} THEN [reg |-> reg, fds |-> fds]
    ELSE LET i == CHOOSE x \in ids : \A y \in ids : x <= y
             r == Erase(reg, fds, i)
         IN  EraseAll(r.reg, r.fds, ids \ {i})

\* generateTextMap(): the possible outcomes, one per iteration order
generateTextMap(reg, fds, d) ==
    LET gone == idsToRemove(reg, d)
        after == EraseAll(reg, fds, gone)
    IN  {[text |-> ConcatLines(reg, o, 1), reg |-> after.reg, fds |-> after.fds]
            : o \in Orders(DOMAIN reg \ gone)}

\* the names readdir passes to the filler, in the set it produces
readdirNames(reg) ==
    {<<".">>, <<".", ".">>, <<"m", "a", "p">>,
     <<"r", "e", "g", "i", "s", "t", "e", "r">>}
        \cup {generateFilenameForId(i) : i \in DOMAIN reg}

(***************************************************************************)
(* Reads.  A caller's buffer of n bytes is a sequence of length n whose    *)
(* element k + 1 is buffer position k; Unset marks a position the handler  *)
(* did not write.                                                          *)
(***************************************************************************)
Unset == 0 - 1

UnsetChar == "UNSET"

Min(x, y) == IF x < y THEN x ELSE y

\* the result of a handler that wrote nothing
NoBytes(n) == [k \in 1..n |-> Unset]

NoChars(n) == [k \in 1..n |-> UnsetChar]

\* ::pread(fd, buf, n, o): the number of bytes read, -1 on a descriptor that
\* is not open or names a directory
pread(fds, fd, n, o) ==
    IF fd \notin DOMAIN fds \/ fds[fd] \notin FileNames
    THEN [ret |-> 0 - 1, buf |-> NoBytes(n)]
    ELSE LET got == IF o >= FileLen THEN 0 ELSE Min(n, FileLen - o)
         IN  [ret |-> got,
              buf |-> [k \in 1..n |-> IF k <= got
                                      THEN FileByte(fds[fd], o + k - 1)
                                      ELSE Unset]]

\* first buffer position and length of the memset that blanks the magic bytes
memsetBeg(o) == magicBytesBegin - o

memsetCount(n, o) == Min(Min(magicBytesEnd - o, 2), n) + 1

\* handleReadRegisteredAppImage(buf, bufsize, offset, fi): the return value,
\* the caller's buffer afterwards, and the positions outside the buffer that
\* the memset wrote to
handleReadRegisteredAppImage(fds, fh, n, o) ==
    LET r == pread(fds, fh, n, o)
    IN  IF r.ret < 0 THEN [ret |-> r.ret, buf |-> r.buf, oob |-> {}]
        ELSE IF o <= magicBytesEnd
        THEN LET zeroed == memsetBeg(o)..(memsetBeg(o) + memsetCount(n, o) - 1)
             IN  [ret |-> r.ret,
                  buf |-> [k \in 1..n |-> IF (k - 1) \in zeroed THEN 0 ELSE r.buf[k]],
                  oob |-> {q \in zeroed : q < 0 \/ q >= n}]
        ELSE [ret |-> r.ret, buf |-> r.buf, oob |-> {}]

\* the value of a size_t expression x - y that the handlers compare with
\* INT32_MAX: a negative difference wraps to a huge value
WrapsOver(x, y) == x - y < 0

\* handleReadMap(buf, bufsize, offset) on a rendered map
handleReadMap(map, n, o) ==
    IF o > Len(map) THEN [ret |-> "-EIO", cnt |-> 0, text |-> NoChars(n)]
    ELSE IF WrapsOver(Min(n, Len(map)), o)
    THEN [ret |-> "-EIO", cnt |-> 0, text |-> NoChars(n)]
    ELSE LET bytesToCopy == Min(n, Len(map)) - o
         IN  [ret |-> "count", cnt |-> bytesToCopy,
              text |-> [k \in 1..n |-> IF k <= bytesToCopy THEN map[o + k]
                                       ELSE UnsetChar]]

REGISTER_MSG ==
    <<"W","r","i","t","e"," ","p","a","t","h","s"," ","t","o"," ",
      "A","p","p","I","m","a","g","e","s"," ","i","n","t","o"," ",
      "t","h","i","s"," ","v","i","r","t","u","a","l"," ","f","i","l","e",",",
      " ","o","n","e"," ","p","e","r"," ","l","i","n","e",","," ",
      "t","o"," ","r","e","g","i","s","t","e","r"," ","t","h","e","m","\n">>

\* handleWriteRegister(buf, bufsize, offset): the message is copied from its
\* start to buf + offset
handleWriteRegister(n, o) ==
    IF WrapsOver(Min(n, Len(REGISTER_MSG)), o)
    THEN [ret |-> "-EIO", cnt |-> 0, text |-> NoChars(n)]
    ELSE LET bytesToWrite == Min(n, Len(REGISTER_MSG)) - o
         IN  [ret |-> "count", cnt |-> bytesToWrite,
              text |-> [k \in 1..n |-> IF k - 1 >= o /\ k - 1 < o + bytesToWrite
                                       THEN REGISTER_MSG[k - o]
                                       ELSE UnsetChar]]

(***************************************************************************)
(* State.                                                                  *)
(***************************************************************************)
VARIABLES
    disk,                 \* kind of each entry of the real directory
    registeredAppImages,  \* PrivateData::registeredAppImages: id -> entry
    counter,              \* PrivateData::counter
    fds,                  \* open file descriptors of the process
    handles,              \* the open struct fuse_file_info slots
    running,              \* FALSE once an exception has left a handler or
                          \* the process has aborted
    maxReturned,          \* history: the largest id registerAppImage has
                          \* returned so far, -1 before the first
    last,                 \* the last request: its arguments and its result
    threads,              \* the calls of registerAppImage that run
                          \* concurrently: where each is, and its locals
    startup               \* the mount point and how far startup has come

vars == <<disk, registeredAppImages, counter, fds, handles, running, maxReturned, last,
          threads, startup>>

\* the file-handle slots (struct fuse_file_info) that can be open at a time
Handles == {1}

\* a slot nothing is opened on; fh = 0 is the null file handle.  buf is the
\* content of the vector fh points to; written is history: the chunks written
\* through the slot since it was opened
ClosedSlot == [open |-> FALSE, path |-> <<>>, fh |-> 0, buf |-> <<>>, written |-> <<>>]

\* fi->fh of an opened /register: the address of the handle's vector; this is
\* the lowest address the allocator hands out
BufPtr == 1

NoReq == [op |-> "", path |-> <<>>, ret |-> "", id |-> 0 - 1, h |-> 0, n |-> 0,
          off |-> 0, cnt |-> 0, buf |-> <<>>, oob |-> {}, text |-> <<>>,
          map |-> <<>>, names |-> {}, inner |-> "", arg |-> <<>>, flags |-> ""]

MapPath == <<"/", "m", "a", "p">>

RegisterPath == <<"/", "r", "e", "g", "i", "s", "t", "e", "r">>

RootPath == <<"/">>

\* the addresses of the vectors that are allocated
LiveVectors(hs) ==
    {hs[k].fh : k \in {j \in DOMAIN hs : hs[j].open /\ hs[j].path = RegisterPath
                                          /\ hs[j].fh # 0}}

\* an allocator that hands out one address to every caller
NewVectorShared(hs) == BufPtr

\* new std::vector<char>: an address no allocated vector has
NewVector(hs) ==
    CHOOSE a \in BufPtr..(BufPtr + Cardinality(DOMAIN hs)) :
        /\ a \notin LiveVectors(hs)
        /\ \A b \in BufPtr..(a - 1) : b \in LiveVectors(hs)

\* the worker threads of the request dispatcher that run registerAppImage
Threads == {1, 2}

\* a thread that is not inside a handler; otherwise pc says where it is and
\* the other fields are the handler's arguments and locals
IdleThread == [pc |-> "idle", path |-> <<>>, tmp |-> 0 - 1, id |-> 0 - 1, ret |-> "",
               h |-> 0, n |-> 0, off |-> 0, file |-> ""]

\* what is at the mount point: nothing, an empty directory left behind, the
\* mount of another instance, such a mount with files open (which cannot be
\* unmounted), or the mount of this instance
MountKinds == {"absent", "dir", "other", "otherBusy", "self"}

\* startup has gone through and the serve loop runs
Serving == [pc |-> "serving", mount |-> "self", mount0 |-> "absent",
            teardown |-> TRUE, checked |-> TRUE, found |-> FALSE, err |-> ""]

Init ==
    /\ threads = [t \in Threads |-> IdleThread]
    /\ startup = Serving
    /\ disk = [f \in FileNames |-> "none"]
    /\ registeredAppImages = <<>>
    /\ counter = 0
    /\ fds = <<>>
    /\ handles = [h \in Handles |-> ClosedSlot]
    /\ running = TRUE
    /\ maxReturned = 0 - 1
    /\ last = NoReq

(***************************************************************************)
(* The environment: files appear, disappear and change kind.               *)
(***************************************************************************)
DiskChange(f, k) ==
    /\ running
    /\ k \in KindsOf(f)
    /\ disk[f] # k
    \* a name changes kind by being removed and created again
    /\ disk[f] = "none" \/ k = "none"
    /\ disk' = [disk EXCEPT ![f] = k]
    /\ last' = [NoReq EXCEPT !.op = "disk"]
    /\ UNCHANGED <<registeredAppImages, counter, fds, handles, running, maxReturned>>
    /\ UNCHANGED <<threads, startup>>

(***************************************************************************)
(* registerAppImage called directly (startup scan, public interface).      *)
(***************************************************************************)
Register(path) ==
    /\ running
    /\ \E r \in registerAppImage(path, registeredAppImages, counter, fds, disk) :
          /\ r.ctr <= MaxCounter
          /\ registeredAppImages' = r.reg
          /\ counter' = r.ctr
          /\ fds' = r.fds
          /\ maxReturned' = IF r.ret = "ok" /\ r.id > maxReturned THEN r.id
                                             ELSE maxReturned
          /\ last' = [NoReq EXCEPT !.op = "registerAppImage", !.arg = path,
                                   !.ret = r.ret, !.id = r.id]
    /\ UNCHANGED <<disk, handles, running>>
    /\ UNCHANGED <<threads, startup>>

(***************************************************************************)
(* registerAppImage run by several threads of the request dispatcher at    *)
(* once.  Nothing in the code excludes one thread from the registry while  *)
(* another works on it, so a call is a sequence of steps: the existence    *)
(* check, the duplicate search (a read of the map), the read of the        *)
(* counter, the write of the counter, and the construction of the entry    *)
(* with its insertion (a write of the map).                                *)
(***************************************************************************)
\* what a step of a thread leaves in last
ThreadStep(t) == [NoReq EXCEPT !.op = "registerAppImage step", !.h = t]

\* if (!bf::exists(path)) throw FileNotFoundError()
RegExists(t, path) ==
    /\ running
    /\ threads[t].pc = "idle"
    /\ counter < MaxCounter
    /\ threads' = [threads EXCEPT ![t] =
                      IF PathExists(path, disk)
                      THEN [IdleThread EXCEPT !.pc = "scan", !.path = path]
                      ELSE [IdleThread EXCEPT !.path = path, !.ret = "FileNotFoundError"]]
    /\ last' = ThreadStep(t)
    /\ UNCHANGED <<disk, registeredAppImages, counter, fds, handles, running,
                   maxReturned, startup>>

\* std::find_if over the map; throw AppImageAlreadyRegisteredError(it->first)
RegScan(t) ==
    /\ running
    /\ threads[t].pc = "scan"
    /\ LET found == {i \in DOMAIN registeredAppImages :
                        SamePath(threads[t].path, registeredAppImages[i])}
       IN  IF found = {}
           THEN threads' = [threads EXCEPT ![t].pc = "load"]
           ELSE \E i \in found :
                   threads' = [threads EXCEPT ![t].pc = "idle", ![t].id = i,
                                  ![t].ret = "AppImageAlreadyRegisteredError"]
    /\ last' = ThreadStep(t)
    /\ UNCHANGED <<disk, registeredAppImages, counter, fds, handles, running,
                   maxReturned, startup>>

\* counter++: the read of the counter
RegLoad(t) ==
    /\ running
    /\ threads[t].pc = "load"
    /\ threads' = [threads EXCEPT ![t].pc = "store", ![t].tmp = counter]
    /\ last' = ThreadStep(t)
    /\ UNCHANGED <<disk, registeredAppImages, counter, fds, handles, running,
                   maxReturned, startup>>

\* counter++: the write of the counter; the value read is the new id
RegStore(t) ==
    /\ running
    /\ threads[t].pc = "store"
    /\ counter' = NextCounter(threads[t].tmp)
    /\ threads' = [threads EXCEPT ![t].pc = "emplace", ![t].id = threads[t].tmp]
    /\ last' = ThreadStep(t)
    /\ UNCHANGED <<disk, registeredAppImages, fds, handles, running, maxReturned, startup>>

\* registeredAppImages.emplace(id, RegisteredAppImage(id, path)); return id
RegEmplace(t) ==
    /\ running
    /\ threads[t].pc = "emplace"
    /\ LET id == threads[t].id
           path == absolute(threads[t].path)
       IN  IF ~CanOpen(path, disk)
           THEN /\ threads' = [threads EXCEPT ![t].pc = "idle", ![t].id = 0 - 1,
                                   ![t].ret = "CouldNotOpenFileError"]
                /\ UNCHANGED <<registeredAppImages, fds, maxReturned>>
           ELSE LET tmpFds == OpenFd(fds, path)
                    tmpFd == LowestFreeFd(fds)
                    cpyFd == LowestFreeFd(tmpFds)
                    e == [id |-> id, path |-> path, fd |-> cpyFd]
                IN  /\ threads' = [threads EXCEPT ![t].pc = "idle", ![t].ret = "ok"]
                    \* emplace leaves an existing key alone
                    /\ registeredAppImages' =
                          IF id \in DOMAIN registeredAppImages THEN registeredAppImages
                          ELSE registeredAppImages @@ (id :> e)
                    /\ fds' = IF id \in DOMAIN registeredAppImages THEN fds
                              ELSE CloseFd(OpenFd(tmpFds, path), tmpFd)
                    /\ maxReturned' = IF id > maxReturned THEN id ELSE maxReturned
    /\ last' = ThreadStep(t)
    /\ UNCHANGED <<disk, counter, handles, running, startup>>

(***************************************************************************)
(* Startup: the constructor of PrivateData, then AppImageLauncherFS::run.  *)
(* The integration directory that the constructor scans is the directory   *)
(* that holds FileNames.                                                   *)
(***************************************************************************)
\* system("fusermount -u <mountpoint>"): a mount nobody uses is taken down
\* and leaves its directory; everything else stays
fusermountU(m) == IF m = "other" THEN "dir" ELSE m

\* system("rmdir <mountpoint>"): an empty directory that is no mount point
\* is removed
rmdir(m) == IF m = "dir" THEN "absent" ELSE m

\* otherInstanceRunning(): bf::is_directory(mountpoint)
otherInstanceRunning(m) == m # "absent"

RECURSIVE ScanDir(_, _, _, _)
\* the loop over the directory: registerAppImage for every regular file, in
\* the order the iterator yields them; an exception ends the loop
ScanDir(order, k, st, d) ==
    IF k > Len(order) \/ st.ret # "ok" THEN {st}
    ELSE UNION {ScanDir(order, k + 1,
                        [ret |-> r.ret, reg |-> r.reg, ctr |-> r.ctr, fds |-> r.fds,
                         max |-> IF r.ret = "ok" /\ r.id > st.max THEN r.id ELSE st.max], d)
                   : r \in registerAppImage(<<"/", order[k]>>, st.reg, st.ctr, st.fds, d)}

\* PrivateData::PrivateData()
Construct ==
    /\ startup.pc = "start"
    /\ \E o \in Orders({f \in FileNames : is_regular_file(<<"/", f>>, disk)}) :
          \E st \in ScanDir(o, 1, [ret |-> "ok", reg |-> registeredAppImages,
                                   ctr |-> counter, fds |-> fds, max |-> maxReturned], disk) :
             /\ registeredAppImages' = st.reg
             /\ counter' = st.ctr
             /\ fds' = st.fds
             /\ maxReturned' = st.max
             /\ startup' = [startup EXCEPT
                               !.pc = IF st.ret = "ok" THEN "constructed" ELSE "failed",
                               !.mount = rmdir(fusermountU(startup.mount)),
                               !.teardown = TRUE,
                               !.err = IF st.ret = "ok" THEN "" ELSE st.ret]
    /\ last' = [NoReq EXCEPT !.op = "construct"]
    /\ UNCHANGED <<disk, handles, running, threads>>

\* AppImageLauncherFS::run() up to the call of fuse_main
Run ==
    /\ startup.pc = "constructed"
    /\ IF otherInstanceRunning(startup.mount)
       THEN /\ startup' = [startup EXCEPT !.pc = "failed", !.checked = TRUE,
                                          !.found = TRUE, !.err = "AlreadyRunningError"]
            /\ UNCHANGED running
       \* create_directories, permissions, fuse_main
       ELSE /\ startup' = [startup EXCEPT !.pc = "serving", !.checked = TRUE,
                                          !.mount = "self"]
            /\ running' = TRUE
    /\ last' = [NoReq EXCEPT !.op = "run"]
    /\ UNCHANGED <<disk, registeredAppImages, counter, fds, handles, maxReturned, threads>>

(***************************************************************************)
(* The lookup of getattr run by a thread while other handlers run: a call  *)
(* of mapPathToRegisteredAppImage is two steps, the access by operator[]   *)
(* (which writes the map when the key is missing) and the test of the      *)
(* entry with the erase.                                                   *)
(***************************************************************************)
\* what a step of a lookup leaves in last
LookupStepOf(t, path) == [NoReq EXCEPT !.op = "lookup step", !.h = t, !.path = path]

\* mapPathToRegisteredAppImage up to auto& registeredAppImage =
\* registeredAppImages[id]
LookupInsert(t, path) ==
    /\ running
    /\ threads[t].pc = "idle"
    /\ LET p == ResolveId(path)
       IN  IF p.ret = "ok"
           THEN /\ registeredAppImages' = Subscript(registeredAppImages, p.id)
                /\ threads' = [threads EXCEPT ![t] =
                                  [IdleThread EXCEPT !.pc = "lookup", !.path = path,
                                                     !.id = p.id]]
                /\ UNCHANGED running
           ELSE IF p.ret = "CouldNotFindRegisteredAppImageError"
           THEN /\ threads' = [threads EXCEPT ![t] =
                                  [IdleThread EXCEPT !.path = path, !.ret = "-ENOENT"]]
                /\ UNCHANGED <<registeredAppImages, running>>
           ELSE /\ threads' = [threads EXCEPT ![t] =
                                  [IdleThread EXCEPT !.path = path, !.ret = "throw " \o p.ret]]
                /\ running' = FALSE
                /\ UNCHANGED registeredAppImages
    /\ last' = LookupStepOf(t, path)
    /\ UNCHANGED <<disk, counter, fds, handles, maxReturned, startup>>

\* what the test of an entry does that another thread has erased in the
\* meantime (a reference into freed memory): it finds the file, or misses
\* it, or the process dies
DanglingOutcomes == {"0", "-ENOENT", "abort"}

\* if (!registeredAppImage.checkExistsOnDisk()) { erase(id); throw ... }
LookupCheck(t) ==
    /\ running
    /\ threads[t].pc = "lookup"
    /\ LET id == threads[t].id
       IN  IF id \notin DOMAIN registeredAppImages
           THEN \E out \in DanglingOutcomes :
                   /\ threads' = [threads EXCEPT ![t].pc = "idle", ![t].ret = out]
                   /\ running' = (out # "abort")
                   /\ UNCHANGED <<registeredAppImages, fds>>
           ELSE IF ~checkExistsOnDisk(registeredAppImages[id], disk)
           THEN LET ev == EvictOnLookup(registeredAppImages, fds, id)
                IN  /\ registeredAppImages' = ev.reg
                    /\ fds' = ev.fds
                    /\ threads' = [threads EXCEPT ![t].pc = "idle", ![t].ret = "-ENOENT"]
                    /\ UNCHANGED running
           ELSE /\ threads' = [threads EXCEPT ![t].pc = "idle", ![t].ret = "0"]
                /\ UNCHANGED <<registeredAppImages, fds, running>>
    /\ last' = LookupStepOf(t, threads[t].path)
    /\ UNCHANGED <<disk, counter, handles, maxReturned, startup>>

(***************************************************************************)
(* getattr                                                                 *)
(***************************************************************************)
Getattr(path) ==
    /\ running
    /\ LET req == [NoReq EXCEPT !.op = "getattr", !.path = path]
       IN
       IF CountChar(path, "/") # 1 \/ Head(path) # "/"
       THEN /\ running' = FALSE
            /\ last' = [req EXCEPT !.ret = "throw InvalidPathError"]
            /\ UNCHANGED <<registeredAppImages, fds>>
       ELSE IF path = RootPath \/ path = RegisterPath
       THEN /\ last' = [req EXCEPT !.ret = "0"]
            /\ UNCHANGED <<registeredAppImages, fds, running>>
       ELSE IF path = MapPath
       THEN \E m \in generateTextMap(registeredAppImages, fds, disk) :
               /\ registeredAppImages' = m.reg
               /\ fds' = m.fds
               /\ last' = [req EXCEPT !.ret = "0", !.cnt = Len(m.text), !.map = m.text]
               /\ UNCHANGED running
       ELSE LET r == mapPathToRegisteredAppImage(path, registeredAppImages, fds, disk)
            IN  /\ registeredAppImages' = r.reg
                /\ fds' = r.fds
                /\ IF r.ret = "ok"
                   \* stat() of the entry's path cannot fail here: the path
                   \* was found to be a regular file a moment ago
                   THEN /\ last' = [req EXCEPT !.ret = "0", !.id = r.id]
                        /\ UNCHANGED running
                   ELSE IF r.ret = "CouldNotFindRegisteredAppImageError"
                   THEN /\ last' = [req EXCEPT !.ret = "-ENOENT"]
                        /\ UNCHANGED running
                   ELSE /\ last' = [req EXCEPT !.ret = "throw " \o r.ret]
                        /\ running' = FALSE
    /\ UNCHANGED <<disk, counter, handles, maxReturned>>
    /\ UNCHANGED <<threads, startup>>

(***************************************************************************)
(* readdir                                                                 *)
(***************************************************************************)
Readdir(path) ==
    /\ running
    /\ last' = IF path # RootPath
               THEN [NoReq EXCEPT !.op = "readdir", !.path = path, !.ret = "-ENOENT"]
               ELSE [NoReq EXCEPT !.op = "readdir", !.path = path, !.ret = "0",
                                  !.names = readdirNames(registeredAppImages)]
    /\ UNCHANGED <<disk, registeredAppImages, counter, fds, handles, running, maxReturned>>
    /\ UNCHANGED <<threads, startup>>

(***************************************************************************)
(* open                                                                    *)
(***************************************************************************)
OpenFlags == {"O_RDONLY", "O_WRONLY", "O_RDWR"}

\* a test that takes every open for a read-only one
WantsWriteNever(flags) == FALSE

\* fi->flags & O_RDWR || fi->flags & O_WRONLY
WantsWrite(flags) == flags \in {"O_RDWR", "O_WRONLY"}

Open(h, path, flags) ==
    /\ running
    /\ ~handles[h].open
    /\ LET req == [NoReq EXCEPT !.op = "open", !.path = path, !.h = h, !.flags = flags]
       IN
       IF path = RegisterPath
       THEN /\ handles' = [handles EXCEPT ![h] =
                             [open |-> TRUE, path |-> path, fh |-> NewVector(handles),
                              buf |-> <<>>, written |-> <<>>]]
            /\ last' = [req EXCEPT !.ret = "0"]
            /\ UNCHANGED <<registeredAppImages, fds, running>>
       ELSE IF path = MapPath /\ ~WantsWrite(flags)
       THEN /\ handles' = [handles EXCEPT ![h] =
                             [open |-> TRUE, path |-> path, fh |-> 0, buf |-> <<>>,
                              written |-> <<>>]]
            /\ last' = [req EXCEPT !.ret = "0"]
            /\ UNCHANGED <<registeredAppImages, fds, running>>
       ELSE LET r == mapPathToRegisteredAppImage(path, registeredAppImages, fds, disk)
            IN  /\ registeredAppImages' = r.reg
                /\ fds' = r.fds
                /\ IF r.ret = "ok"
                   THEN /\ handles' = [handles EXCEPT ![h] =
                                         [open |-> TRUE, path |-> path,
                                          fh |-> r.reg[r.id].fd, buf |-> <<>>,
                                          written |-> <<>>]]
                        /\ last' = [req EXCEPT !.ret = "0", !.id = r.id]
                        /\ UNCHANGED running
                   ELSE IF r.ret = "CouldNotFindRegisteredAppImageError"
                   THEN /\ last' = [req EXCEPT !.ret = "-ENOENT"]
                        /\ UNCHANGED <<handles, running>>
                   ELSE /\ last' = [req EXCEPT !.ret = "throw " \o r.ret]
                        /\ running' = FALSE
                        /\ UNCHANGED handles
    /\ UNCHANGED <<disk, counter, maxReturned>>
    /\ UNCHANGED <<threads, startup>>

(***************************************************************************)
(* read                                                                    *)
(***************************************************************************)
Read(h, n, o) ==
    /\ running
    /\ handles[h].open
    /\ LET path == handles[h].path
           req == [NoReq EXCEPT !.op = "read", !.path = path, !.h = h, !.n = n, !.off = o]
       IN
       IF path = MapPath
       THEN \E m \in generateTextMap(registeredAppImages, fds, disk) :
               LET r == handleReadMap(m.text, n, o)
               IN  /\ registeredAppImages' = m.reg
                   /\ fds' = m.fds
                   /\ last' = [req EXCEPT !.ret = r.ret, !.cnt = r.cnt,
                                          !.text = r.text, !.map = m.text]
                   /\ UNCHANGED running
       ELSE IF path = RegisterPath
       THEN LET r == handleWriteRegister(n, o)
            IN  /\ last' = [req EXCEPT !.ret = r.ret, !.cnt = r.cnt, !.text = r.text]
                /\ UNCHANGED <<registeredAppImages, fds, running>>
       ELSE LET r == mapPathToRegisteredAppImage(path, registeredAppImages, fds, disk)
            IN  /\ registeredAppImages' = r.reg
                /\ fds' = r.fds
                /\ IF r.ret = "ok"
                   THEN LET b == handleReadRegisteredAppImage(fds, handles[h].fh, n, o)
                        IN  /\ last' = [req EXCEPT
                                          !.ret = IF b.ret < 0 THEN "-1" ELSE "count",
                                          !.cnt = b.ret, !.id = r.id,
                                          !.buf = b.buf, !.oob = b.oob]
                            /\ UNCHANGED running
                   ELSE IF r.ret = "CouldNotFindRegisteredAppImageError"
                   THEN /\ last' = [req EXCEPT !.ret = "-ENOENT"]
                        /\ UNCHANGED running
                   ELSE /\ last' = [req EXCEPT !.ret = "throw " \o r.ret]
                        /\ running' = FALSE
    /\ UNCHANGED <<disk, counter, handles, maxReturned>>
    /\ UNCHANGED <<threads, startup>>

(***************************************************************************)
(* read of a registered file run by a thread while other handlers run: the *)
(* lookup of the path, then the pread on the descriptor number the kernel  *)
(* passes in fi->fh, which open stored there.                              *)
(***************************************************************************)
\* (void) mapPathToRegisteredAppImage(path) in read; the thread's field file
\* notes the file of the entry the lookup found (kept for the properties
\* only)
ReadLookup(t, h, n, o) ==
    /\ running
    /\ threads[t].pc = "idle"
    /\ handles[h].open
    /\ handles[h].path \notin {MapPath, RegisterPath}
    /\ LET path == handles[h].path
           req == [NoReq EXCEPT !.op = "read", !.path = path, !.h = h, !.n = n, !.off = o]
           r == mapPathToRegisteredAppImage(path, registeredAppImages, fds, disk)
       IN  /\ registeredAppImages' = r.reg
           /\ fds' = r.fds
           /\ IF r.ret = "ok"
              THEN /\ threads' = [threads EXCEPT ![t] =
                                     [IdleThread EXCEPT !.pc = "pread", !.path = path,
                                                        !.tmp = handles[h].fh, !.id = r.id,
                                                        !.h = h, !.n = n, !.off = o,
                                                        !.file = Target(r.reg[r.id].path)]]
                   /\ last' = [req EXCEPT !.inner = "lookup", !.id = r.id]
                   /\ UNCHANGED running
              ELSE IF r.ret = "CouldNotFindRegisteredAppImageError"
              THEN /\ last' = [req EXCEPT !.ret = "-ENOENT"]
                   /\ UNCHANGED <<threads, running>>
              ELSE /\ last' = [req EXCEPT !.ret = "throw " \o r.ret]
                   /\ running' = FALSE
                   /\ UNCHANGED threads
    /\ UNCHANGED <<disk, counter, handles, maxReturned, startup>>

\* return handleReadRegisteredAppImage(buf, bufsize, offset, fi)
ReadPread(t) ==
    /\ running
    /\ threads[t].pc = "pread"
    /\ LET th == threads[t]
           b == handleReadRegisteredAppImage(fds, th.tmp, th.n, th.off)
       IN  last' = [NoReq EXCEPT !.op = "read", !.path = th.path, !.h = th.h,
                                 !.n = th.n, !.off = th.off, !.id = th.id,
                                 !.ret = IF b.ret < 0 THEN "-1" ELSE "count",
                                 !.cnt = b.ret, !.buf = b.buf, !.oob = b.oob,
                                 !.inner = "pread"]
    /\ threads' = [threads EXCEPT ![t].pc = "idle"]
    /\ UNCHANGED <<disk, registeredAppImages, counter, fds, handles, running,
                   maxReturned, startup>>

(***************************************************************************)
(* write                                                                   *)
(***************************************************************************)
\* what clients write into /register, as one fragment or several
RegisterInputs == {<<"/", "a", "\n">>, <<"a", "\r", "\n">>}

\* two paths written into /register, one per line
LineInputs == {<<"/", "b", "\n", "/", "a", "\n">>}

IsPrefix(s, t) == Len(s) <= Len(t) /\ SubSeq(t, 1, Len(s)) = s

\* the fragments that continue buf towards one of the inputs
FragmentsOf(inputs, buf) ==
    UNION {{SubSeq(m, Len(buf) + 1, k) : k \in (Len(buf) + 1)..Len(m)} :
              m \in {x \in inputs : IsPrefix(buf, x) /\ Len(buf) < Len(x)}}

FragmentsFor(buf) == FragmentsOf(RegisterInputs \cup LineInputs, buf)

\* every fragment of the inputs
AllFragments(inputs) ==
    UNION {UNION {FragmentsOf(inputs, SubSeq(m, 1, k)) : k \in 0..Len(m)} : m \in inputs}

\* every fragment the model writes of RegisterInputs
Fragments == AllFragments(RegisterInputs)

\* every fragment the model writes of LineInputs
LineFragments == AllFragments(LineInputs)

\* a copy that puts the fragment in the place of the buffer
ReplaceByFragment(buf, fragment) == fragment

\* std::copy(fragment.begin(), fragment.end(), std::back_inserter(*dataBuf))
AppendFragment(buf, fragment) == buf \o fragment

Write(h, fragment) ==
    /\ running
    /\ handles[h].open
    \* the client is writing one of RegisterInputs
    /\ fragment \in FragmentsFor(handles[h].buf)
    /\ LET path == handles[h].path
           req == [NoReq EXCEPT !.op = "write", !.path = path, !.h = h,
                                !.n = Len(fragment), !.arg = fragment]
       IN
       IF path # RegisterPath
       THEN /\ last' = [req EXCEPT !.ret = "-ENOENT"]
            /\ UNCHANGED handles
       \* the fragment goes to the vector fi->fh points to
       ELSE /\ handles' =
                [k \in DOMAIN handles |->
                    LET slot == IF k = h
                                THEN [handles[k] EXCEPT !.written = @ \o fragment]
                                ELSE handles[k]
                    IN  IF slot.open /\ slot.path = RegisterPath /\ slot.fh = handles[h].fh
                        THEN [slot EXCEPT !.buf = AppendFragment(@, fragment)]
                        ELSE slot]
            /\ last' = [req EXCEPT !.ret = "count", !.cnt = Len(fragment)]
    /\ UNCHANGED <<disk, registeredAppImages, counter, fds, running, maxReturned>>
    /\ UNCHANGED <<threads, startup>>

\* write called with a path no handle was opened on (the root, a name
\* nothing is registered under): the handler returns before it looks at fi
WriteNoHandle(path, fragment) ==
    /\ running
    /\ path # RegisterPath
    /\ last' = [NoReq EXCEPT !.op = "write", !.path = path, !.n = Len(fragment),
                             !.arg = fragment, !.ret = "-ENOENT"]
    /\ UNCHANGED <<disk, registeredAppImages, counter, fds, handles, running,
                   maxReturned, threads, startup>>

(***************************************************************************)
(* truncate                                                                *)
(***************************************************************************)
\* a truncate that succeeds on every path
truncateAlwaysSucceeds(path) == "0"

\* the return value of truncate
truncateResult(path) == IF path = RegisterPath THEN "0" ELSE "-EPERM"

Truncate(path) ==
    /\ running
    /\ last' = [NoReq EXCEPT !.op = "truncate", !.path = path,
                             !.ret = truncateResult(path)]
    /\ UNCHANGED <<disk, registeredAppImages, counter, fds, handles, running, maxReturned>>
    /\ UNCHANGED <<threads, startup>>

(***************************************************************************)
(* release                                                                 *)
(***************************************************************************)
\* a release that absorbs AlreadyRegistered only
ReleaseCatchesDuplicateOnly(ret) == ret = "AppImageAlreadyRegisteredError"

\* the exceptions of registerAppImage the catch clauses of release absorb:
\* AppImageAlreadyRegisteredError, and every other AppImageLauncherFSError
ReleaseCatches(ret) ==
    ret \in {"AppImageAlreadyRegisteredError", "FileNotFoundError", "CouldNotOpenFileError"}

IsLineEnd(c) == c = "\n" \/ c = "\r"

\* a strip that removes one trailing line-ending character only
StripLineEndsOnce(s) ==
    IF s # <<>> /\ (s[Len(s)] = "\n" \/ s[Len(s)] = "\r") THEN SubSeq(s, 1, Len(s) - 1)
    ELSE s

RECURSIVE StripLineEnds(_)
\* while (back() is a line ending) pop_back(), as far as the string is not
\* empty
StripLineEnds(s) ==
    IF s # <<>> /\ IsLineEnd(s[Len(s)]) THEN StripLineEnds(SubSeq(s, 1, Len(s) - 1))
    ELSE s

\* the loop reaches back() of an empty string (undefined behaviour) when the
\* buffer is empty or holds line endings only
StripReadsEmpty(s) == StripLineEnds(s) = <<>>

\* what the build may do there: the byte found before the string is no line
\* ending and the loop ends with the empty string, or the process aborts
StripOutcomes(s) == IF StripReadsEmpty(s) THEN {"empty", "abort"} ELSE {"stripped"}

Release(h) ==
    /\ running
    /\ handles[h].open
    /\ LET path == handles[h].path
           req == [NoReq EXCEPT !.op = "release", !.path = path, !.h = h,
                                !.arg = handles[h].buf]
       IN
       IF path = RegisterPath /\ handles[h].fh # 0
       THEN \E out \in StripOutcomes(handles[h].buf) :
               IF out = "abort"
               THEN /\ running' = FALSE
                    /\ last' = [req EXCEPT !.ret = "abort"]
                    /\ UNCHANGED <<registeredAppImages, counter, fds, handles, maxReturned>>
               ELSE LET requestedPath == StripLineEnds(handles[h].buf)
                    IN  \E r \in registerAppImage(requestedPath, registeredAppImages,
                                                  counter, fds, disk) :
                           /\ r.ctr <= MaxCounter
                           /\ registeredAppImages' = r.reg
                           /\ counter' = r.ctr
                           /\ fds' = r.fds
                           /\ maxReturned' = IF r.ret = "ok" /\ r.id > maxReturned
                                             THEN r.id ELSE maxReturned
                           /\ IF r.ret = "ok" \/ ReleaseCatches(r.ret)
                              \* delete buf; fi->fh = 0; the slot is given up
                              THEN /\ handles' = [handles EXCEPT ![h] = ClosedSlot]
                                   /\ last' = [req EXCEPT !.ret = "0", !.inner = r.ret,
                                                          !.id = r.id]
                                   /\ UNCHANGED running
                              \* the exception leaves the handler
                              ELSE /\ last' = [req EXCEPT !.ret = "throw " \o r.ret,
                                                          !.inner = r.ret]
                                   /\ running' = FALSE
                                   /\ UNCHANGED handles
       ELSE /\ handles' = [handles EXCEPT ![h] = ClosedSlot]
            /\ last' = [req EXCEPT !.ret = "0"]
            /\ UNCHANGED <<registeredAppImages, counter, fds, running, maxReturned>>
    /\ UNCHANGED disk
    /\ UNCHANGED <<threads, startup>>

\* release of a slot that was released before: fi->fh is 0, so the handler
\* returns at once
ReleaseAgain(h) ==
    /\ running
    /\ ~handles[h].open
    /\ handles[h].fh = 0
    /\ last' = [NoReq EXCEPT !.op = "release", !.path = RegisterPath, !.h = h,
                             !.ret = "0", !.inner = "released before"]
    /\ UNCHANGED <<disk, registeredAppImages, counter, fds, handles, running,
                   maxReturned, threads, startup>>

(***************************************************************************)
(* The requests the model issues.                                          *)
(***************************************************************************)
\* spellings handed to registerAppImage: absolute, relative to the working
\* directory, and absolute but not normalised
PathInputs == {<<"/", "a">>, <<"a">>, <<"/", ".", "/", "a">>, <<"/", "b">>}

\* the name of the virtual file of an id
VirtualName(i) == <<"/">> \o generateFilenameForId(i)

\* a path below a directory, which the filesystem does not have
NestedPath == <<"/", "a", "/", "b">>

\* the virtual names of the ids the counter can hand out
CanonicalNames == {VirtualName(i) : i \in 0..(MaxCounter - 1)}

(***************************************************************************)
(* Spec: the registry under registrations, lookups by name (getattr),      *)
(* renderings of the map (getattr of /map), listings of the root directory *)
(* and changes of the real files.                                          *)
(***************************************************************************)
RegistryPaths == {RootPath, MapPath, NestedPath} \cup CanonicalNames

Next ==
    \/ \E f \in FileNames, k \in Kinds : DiskChange(f, k)
    \/ \E p \in PathInputs : Register(p)
    \/ \E p \in RegistryPaths : Getattr(p)
    \/ \E p \in {RootPath, MapPath} : Readdir(p)

Spec == Init /\ [][Next]_vars

(***************************************************************************)
(* SpecHandles: the handlers that work on an open file handle (open, read, *)
(* write, release), with truncate and the lookups of getattr, while the    *)
(* file "a" comes and goes.  Registrations come from /register only.       *)
(***************************************************************************)
HandlePaths == {MapPath, RegisterPath} \cup CanonicalNames

\* (bufsize, offset) of the reads
HandleReads == {<<MaxBufSize, 0>>}

NextHandles ==
    \/ \E k \in Kinds : DiskChange("a", k)
    \/ \E p \in {MapPath} \cup CanonicalNames : Getattr(p)
    \/ \E h \in Handles, p \in HandlePaths, fl \in {"O_RDONLY", "O_RDWR"} : Open(h, p, fl)
    \/ \E h \in Handles, r \in HandleReads : Read(h, r[1], r[2])
    \/ \E h \in Handles, c \in Fragments : Write(h, c)
    \/ \E p \in {RegisterPath, MapPath} : Truncate(p)
    \/ \E h \in Handles : Release(h)

SpecHandles == Init /\ [][NextHandles]_vars

(***************************************************************************)
(* SpecResolve: the path resolver on names that are and are not the        *)
(* generated ones, while "/a" is registered, removed and registered again. *)
(***************************************************************************)
LowerSuffix == <<".", "a", "p", "p", "i", "m", "a", "g", "e">>

UpperSuffix == <<".", "A", "P", "P", "I", "M", "A", "G", "E">>

\* names whose numeral is i but which differ from the generated name in the
\* padding, by a sign, in the case of the letters or in the suffix
PaddingVariants(i) ==
    {<<"/">> \o PadLeft(Digits(i), w, "0") \o Suffix : w \in {1, 3, 5}}
        \ {VirtualName(i)}

SignVariants(i) ==
    {<<"/", "+">> \o PadLeft(Digits(i), w, "0") \o Suffix : w \in {3, 4}}
        \cup (IF i = 0 THEN {<<"/", "-">> \o PadLeft(Digits(i), 3, "0") \o Suffix}
              ELSE {})

CaseVariants(i) ==
    {<<"/">> \o PadLeft(Digits(i), FilenameWidth, "0") \o x : x \in {LowerSuffix, UpperSuffix}}

SuffixVariants(i) ==
    {<<"/">> \o PadLeft(Digits(i), FilenameWidth, "0") \o x :
        x \in {<<>>, <<".">>, SubSeq(Suffix, 1, Len(Suffix) - 1), Suffix \o <<"x">>,
               Suffix \o Suffix, <<" ">> \o Suffix}}

Variants(i) == PaddingVariants(i) \cup SignVariants(i) \cup CaseVariants(i)
                   \cup SuffixVariants(i)

\* the ids whose variants are tried
VariantIds == {0, 1}

ResolveNames == CanonicalNames \cup UNION {Variants(i) : i \in VariantIds}

NextResolve ==
    \/ \E k \in {"none", "file"} : DiskChange("a", k)
    \/ \E p \in {<<"/", "a">>} : Register(p)
    \/ \E p \in ResolveNames : Getattr(p)
    \/ \E h \in Handles, p \in CanonicalNames \cup PaddingVariants(0) : Open(h, p, "O_RDONLY")
    \/ \E h \in Handles : Release(h)

SpecResolve == Init /\ [][NextResolve]_vars

(***************************************************************************)
(* SpecRead: reads of a registered file at every offset and buffer size.   *)
(***************************************************************************)
BufSizes == 1..MaxBufSize

Offsets == 0..FileLen

NextRead ==
    \/ \E k \in {"file"} : DiskChange("a", k)
    \/ \E p \in {<<"/", "a">>} : Register(p)
    \/ \E h \in Handles, p \in CanonicalNames : Open(h, p, "O_RDONLY")
    \/ \E h \in Handles, n \in BufSizes, o \in Offsets : Read(h, n, o)
    \/ \E h \in Handles : Release(h)

SpecRead == Init /\ [][NextRead]_vars

(***************************************************************************)
(* SpecLines: several lines written into /register through one handle,     *)
(* while the files "a" and "b" come and go.                                *)
(***************************************************************************)
NextLines ==
    \/ \E f \in FileNames, k \in {"none", "file"} : DiskChange(f, k)
    \/ \E h \in Handles : Open(h, RegisterPath, "O_WRONLY")
    \/ \E h \in Handles, c \in LineFragments : Write(h, c)
    \/ \E h \in Handles : Release(h)

SpecLines == Init /\ [][NextLines]_vars

(***************************************************************************)
(* SpecConcurrent: two threads register "/a" and "/b" at once, while the   *)
(* files come and go and lookups evict the entries of the files gone.      *)
(***************************************************************************)
ConcurrentPaths == {<<"/", "a">>, <<"/", "b">>}

NextConcurrent ==
    \/ \E f \in FileNames, k \in {"none", "file"} : DiskChange(f, k)
    \/ \E t \in Threads, p \in ConcurrentPaths : RegExists(t, p)
    \/ \E t \in Threads : RegScan(t)
    \/ \E t \in Threads : RegLoad(t)
    \/ \E t \in Threads : RegStore(t)
    \/ \E t \in Threads : RegEmplace(t)
    \/ \E p \in {MapPath} \cup CanonicalNames : Getattr(p)

SpecConcurrent == Init /\ [][NextConcurrent]_vars

(***************************************************************************)
(* SpecBuffers: two handles of /register open at once, their writes and    *)
(* releases interleaved, while the file "a" comes and goes.                *)
(***************************************************************************)
BufferHandles == {1, 2}

InitBuffers ==
    /\ threads = [t \in Threads |-> IdleThread]
    /\ startup = Serving
    /\ disk = [f \in FileNames |-> "none"]
    /\ registeredAppImages = <<>>
    /\ counter = 0
    /\ fds = <<>>
    /\ handles = [h \in BufferHandles |-> ClosedSlot]
    /\ running = TRUE
    /\ maxReturned = 0 - 1
    /\ last = NoReq

NextBuffers ==
    \/ \E k \in {"none", "file", "locked"} : DiskChange("a", k)
    \/ \E h \in BufferHandles : Open(h, RegisterPath, "O_WRONLY")
    \/ \E h \in BufferHandles, c \in Fragments : Write(h, c)
    \/ \E h \in BufferHandles : Release(h)
    \/ \E h \in BufferHandles : ReleaseAgain(h)

SpecBuffers == InitBuffers /\ [][NextBuffers]_vars

(***************************************************************************)
(* SpecStartup: the process starts, with whatever is at the mount point    *)
(* and in the integration directory, and then serves requests.             *)
(***************************************************************************)
InitStartup ==
    /\ threads = [t \in Threads |-> IdleThread]
    /\ \E m \in MountKinds \ {"self"} :
          startup = [pc |-> "start", mount |-> m, mount0 |-> m, teardown |-> FALSE,
                     checked |-> FALSE, found |-> FALSE, err |-> ""]
    /\ disk \in {d \in [FileNames -> Kinds] : \A f \in FileNames : d[f] \in KindsOf(f)}
    /\ registeredAppImages = <<>>
    /\ counter = 0
    /\ fds = <<>>
    /\ handles = [h \in Handles |-> ClosedSlot]
    /\ running = FALSE
    /\ maxReturned = 0 - 1
    /\ last = NoReq

NextStartup ==
    \/ Construct
    \/ Run
    \/ \E f \in FileNames, k \in {"none", "file"} : DiskChange(f, k)
    \/ \E p \in {MapPath} \cup CanonicalNames : Getattr(p)
    \/ \E p \in {RootPath} : Readdir(p)

SpecStartup == InitStartup /\ [][NextStartup]_vars

(***************************************************************************)
(* SpecControl: reads of the two control files /map and /register at       *)
(* offsets and buffer sizes below, at and above the lengths of their       *)
(* contents, while "/a" is registered and evicted and paths are written    *)
(* into /register.                                                         *)
(***************************************************************************)
\* the length of the one line of the map that lists "/a"
MapLineLen == Len(MapLine(0, [path |-> <<"/", "a">>]))

ControlBufSizes == {1, 5, MapLineLen, MapLineLen + 5, Len(REGISTER_MSG), Len(REGISTER_MSG) + 5}

ControlOffsets == {0, 1, 5, MapLineLen, MapLineLen + 1, Len(REGISTER_MSG),
                   Len(REGISTER_MSG) + 1}

NextControl ==
    \/ \E k \in {"none", "file"} : DiskChange("a", k)
    \/ \E p \in {<<"/", "a">>} : Register(p)
    \/ \E h \in Handles, p \in {MapPath, RegisterPath} : Open(h, p, "O_RDONLY")
    \/ \E h \in Handles, c \in Fragments : Write(h, c)
    \/ \E h \in Handles, n \in ControlBufSizes, o \in ControlOffsets : Read(h, n, o)
    \/ \E h \in Handles : Release(h)

SpecControl == Init /\ [][NextControl]_vars

(***************************************************************************)
(* SpecOps: every operation on the registry side by side: registrations,   *)
(* getattr (with the render of the map), readdir, open, read, write,       *)
(* truncate and release, while the file "a" comes and goes or turns into a *)
(* directory.                                                              *)
(***************************************************************************)
NextOps ==
    \/ \E k \in {"none", "file", "dir"} : DiskChange("a", k)
    \/ \E p \in {<<"/", "a">>} : Register(p)
    \/ \E p \in {RootPath, MapPath} \cup CanonicalNames : Getattr(p)
    \/ \E p \in {RootPath} : Readdir(p)
    \/ \E h \in Handles, p \in HandlePaths : Open(h, p, "O_RDONLY")
    \/ \E h \in Handles, r \in HandleReads : Read(h, r[1], r[2])
    \/ \E h \in Handles, c \in Fragments : Write(h, c)
    \/ \E p \in {RegisterPath, MapPath, RootPath} \cup CanonicalNames : Truncate(p)
    \/ \E h \in Handles : Release(h)

SpecOps == Init /\ [][NextOps]_vars

(***************************************************************************)
(* SpecWrite: writes to /register and to every other kind of path, while   *)
(* "/a" is registered.                                                     *)
(***************************************************************************)
\* a name in the root directory that nothing is registered under
UnknownName == <<"/", "x">>

NextWrite ==
    \/ \E k \in {"none", "file"} : DiskChange("a", k)
    \/ \E p \in {<<"/", "a">>} : Register(p)
    \/ \E h \in Handles, p \in HandlePaths : Open(h, p, "O_RDONLY")
    \/ \E h \in Handles, c \in Fragments : Write(h, c)
    \/ \E p \in {RootPath, UnknownName}, c \in Fragments : WriteNoHandle(p, c)
    \/ \E h \in Handles : Release(h)

SpecWrite == Init /\ [][NextWrite]_vars

(***************************************************************************)
(* SpecOpen: opens of the control files and of registered files with every *)
(* access mode, while "/a" is registered and evicted.                      *)
(***************************************************************************)
NextOpen ==
    \/ \E k \in {"none", "file"} : DiskChange("a", k)
    \/ \E p \in {<<"/", "a">>} : Register(p)
    \/ \E h \in Handles, p \in HandlePaths, fl \in OpenFlags : Open(h, p, fl)
    \/ \E h \in Handles, c \in Fragments : Write(h, c)
    \/ \E h \in Handles : Release(h)

SpecOpen == Init /\ [][NextOpen]_vars

(***************************************************************************)
(* SpecLookup: lookups of the generated names by two threads, step by      *)
(* step, while the root directory is listed, the map is rendered and "/a"  *)
(* is registered and removed.                                              *)
(***************************************************************************)
NextLookup ==
    \/ \E k \in {"none", "file"} : DiskChange("a", k)
    \/ \E p \in {<<"/", "a">>} : Register(p)
    \/ \E t \in Threads, p \in CanonicalNames : LookupInsert(t, p)
    \/ \E t \in Threads : LookupCheck(t)
    \/ \E p \in {RootPath} : Readdir(p)
    \/ \E p \in {MapPath} : Getattr(p)

SpecLookup == Init /\ [][NextLookup]_vars

(***************************************************************************)
(* SpecReadRace: reads of the registered files by two threads, the lookup  *)
(* and the pread as separate steps, while "/a" and "/b" come and go, are   *)
(* registered, and are looked up by getattr.                               *)
(***************************************************************************)
RacePaths == {<<"/", "a">>, <<"/", "b">>}

NextReadRace ==
    \/ \E f \in FileNames, k \in {"none", "file"} : DiskChange(f, k)
    \/ \E p \in RacePaths : Register(p)
    \/ \E p \in CanonicalNames : Getattr(p)
    \/ \E h \in Handles, p \in CanonicalNames : Open(h, p, "O_RDONLY")
    \/ \E t \in Threads, h \in Handles, r \in HandleReads : ReadLookup(t, h, r[1], r[2])
    \/ \E t \in Threads : ReadPread(t)

SpecReadRace == Init /\ [][NextReadRace]_vars

(***************************************************************************)
(* Properties.                                                             *)
(***************************************************************************)
Registry == registeredAppImages

\* the step is a call of registerAppImage with the path last'.arg
RegisterStep == last'.op = "registerAppImage"

\* the ids of the entries whose canonical path is that of path
HoldersOf(path, reg) == {i \in DOMAIN reg : Canonical(reg[i].path) = Canonical(path)}

\* C1: the registry never holds two entries with the same canonical path,
\* whatever spelling the paths were registered under.
C1_OneEntryPerCanonicalPath ==
    \A i, j \in DOMAIN Registry :
        i # j => Canonical(Registry[i].path) # Canonical(Registry[j].path)

\* C2: registering an existing path whose canonical path an entry already
\* holds fails with AlreadyRegistered carrying the id of that entry, and
\* leaves the entries and the counter as they were.
C2_DuplicateIsRefused ==
    [][(/\ RegisterStep
        /\ exists(last'.arg, disk)
        /\ HoldersOf(last'.arg, Registry) # {})
       => /\ last'.ret = "AppImageAlreadyRegisteredError"
          /\ last'.id \in HoldersOf(last'.arg, Registry)
          /\ registeredAppImages' = registeredAppImages
          /\ counter' = counter]_vars

\* C3: registering a path that does not exist fails with NotFound and leaves
\* the entries and the counter as they were.
C3_NotFoundLeavesRegistry ==
    [][(RegisterStep /\ ~exists(last'.arg, disk))
       => /\ last'.ret = "FileNotFoundError"
          /\ registeredAppImages' = registeredAppImages
          /\ counter' = counter
          /\ fds' = fds]_vars

\* C3 witness: a registration of a missing path was refused while the
\* registry held an entry.
C3_Witness ==
    /\ last.op = "registerAppImage"
    /\ last.ret = "FileNotFoundError"
    /\ DOMAIN Registry # {}

\* C4: every successful registration returns the value the counter had, which
\* starts at 0: an id that is not negative, greater than every id returned
\* before and held by no entry; the counter moves past it.
C4_IdsStrictlyIncrease ==
    /\ [](counter = 0 => maxReturned = 0 - 1 /\ DOMAIN Registry = {})
    /\ [][(RegisterStep /\ last'.ret = "ok")
          => /\ last'.id = counter
             /\ last'.id >= 0
             /\ last'.id > maxReturned
             /\ last'.id \notin DOMAIN registeredAppImages
             /\ last'.id \in DOMAIN registeredAppImages'
             /\ counter' > last'.id]_vars

\* C4 witness: "/a" has been registered, evicted and registered again under
\* a new id.
C4_Witness ==
    /\ last.op = "registerAppImage"
    /\ last.ret = "ok"
    /\ last.id = 1
    /\ last.arg = <<"/", "a">>
    /\ DOMAIN Registry = {1}
    /\ maxReturned = 1

\* the step is a lookup of a name by getattr, open or read
LookupStep == last'.op \in {"getattr", "open", "read"}

\* the backing file of an entry is still there
Survives(e) == is_regular_file(e.path, disk)

\* C5: the generated name of a registered id whose file exists resolves to
\* the entry of that id; a name with the same numeral that differs in
\* padding, sign, case or suffix fails with NotFound and yields no entry.
C5_OnlyGeneratedNamesResolve ==
    [][LookupStep
       => /\ \A i \in DOMAIN Registry :
                (last'.path = VirtualName(i) /\ Survives(Registry[i]))
                => /\ last'.ret = "0"
                   /\ last'.id = i
                   /\ registeredAppImages' = registeredAppImages
                   /\ last'.op = "open" => handles'[last'.h].fh = Registry[i].fd
          /\ \A i \in VariantIds :
                last'.path \in Variants(i)
                => /\ last'.ret = "-ENOENT"
                   /\ last'.id = 0 - 1
                   /\ registeredAppImages' = registeredAppImages
                   /\ handles' = handles]_vars

\* C5 witness: a name with the numeral of a registered id whose file exists
\* was refused.
C5_Witness ==
    /\ last.op = "getattr"
    /\ last.ret = "-ENOENT"
    /\ \E i \in VariantIds \cap DOMAIN Registry :
          last.path \in Variants(i) /\ Survives(Registry[i])

RECURSIVE LinesOf(_)
\* the lines of a text
LinesOf(text) ==
    IF text = <<>> THEN {}
    ELSE LET l == UpTo(text, "\n")
         IN  {l} \cup LinesOf(Drop(text, Len(l) + 1))

\* the file names at the head of the lines of a rendered map
ListedNames(text) == {UpTo(l, " ") : l \in LinesOf(text)}

AllIds == 0..MaxCounter

\* the step looks up the virtual name of id i
NameLookupOf(i) == LookupStep /\ last'.path = VirtualName(i)

\* the step renders the map
RenderStep == last'.op \in {"getattr", "read"} /\ last'.path = MapPath

\* C6: a lookup of an entry whose file is gone (by name, or by a rendering of
\* the map) removes the entry; a lookup of an id that has no entry fails with
\* NotFound and creates none; a rendered map has no line for either.
C6_StaleEntriesAreEvicted ==
    [][/\ \A i \in DOMAIN Registry :
             ~Survives(Registry[i])
             => /\ (NameLookupOf(i) \/ RenderStep) => i \notin DOMAIN registeredAppImages'
                /\ NameLookupOf(i) => last'.ret = "-ENOENT"
       /\ \A i \in AllIds \ DOMAIN Registry :
             NameLookupOf(i) => /\ last'.ret = "-ENOENT"
                                /\ registeredAppImages' = registeredAppImages
       /\ RenderStep
          => \A i \in AllIds :
                (i \notin DOMAIN Registry \/ ~Survives(Registry[i]))
                => generateFilenameForId(i) \notin ListedNames(last'.map)]_vars

\* C6 witness: a read through a handle opened on a registered file found the
\* entry gone.
C6_Witness ==
    /\ last.op = "read"
    /\ last.path = VirtualName(0)
    /\ last.ret = "-ENOENT"
    /\ maxReturned >= 0
    /\ 0 \notin DOMAIN Registry

ControlNames == {<<".">>, <<".", ".">>, <<"m", "a", "p">>,
                 <<"r", "e", "g", "i", "s", "t", "e", "r">>}

\* C7: a listing of the root directory yields ".", "..", "map", "register"
\* and the names of exactly the registered ids whose path still exists on
\* disk.
C7_RootListsSurvivors ==
    (last.op = "readdir" /\ last.path = RootPath)
    => /\ last.ret = "0"
       /\ last.names = ControlNames \cup
              {generateFilenameForId(i) :
                  i \in {j \in DOMAIN Registry : exists(Registry[j].path, disk)}}

MarkerRange == magicBytesBegin..magicBytesEnd

\* a read of a registered file has returned bytes
FileReadDone == last.op = "read" /\ last.path \in CanonicalNames /\ last.ret = "count"

\* C8: every returned byte whose file position is 8, 9 or 10 is zero.
C8_MarkerBytesAreZero ==
    FileReadDone
    => \A k \in 1..last.cnt :
          (last.off + k - 1) \in MarkerRange => last.buf[k] = 0

\* C9: the blanking writes inside the buffer and inside the marker range
\* only: every other returned byte is the file's, every other position of
\* the buffer is left alone, and nothing outside the buffer is written.
C9_BlankingStaysInBounds ==
    FileReadDone
    => /\ last.oob = {}
       /\ \A k \in 1..last.n :
             (last.off + k - 1) \notin MarkerRange
             => last.buf[k] = IF k <= last.cnt
                              THEN FileByte(Target(Registry[last.id].path),
                                            last.off + k - 1)
                              ELSE Unset

\* the paths and line endings written into /register
WrittenPaths == {<<"/", "a">>, <<"a">>}

LineEndings == {<<"\n">>, <<"\r", "\n">>}

\* the step releases handle h of /register
ReleaseStep(h) ==
    last'.op = "release" /\ last'.path = RegisterPath /\ last'.h = h /\ last'.ret = "0"

\* the step writes through handle h of /register
WriteStep(h) ==
    last'.op = "write" /\ last'.path = RegisterPath /\ last'.h = h

\* the step adds exactly one entry, with the path stored, and keeps the rest
AddsOneEntry(stored) ==
    \E new \in AllIds \ DOMAIN Registry :
        /\ DOMAIN registeredAppImages' = DOMAIN Registry \cup {new}
        /\ registeredAppImages'[new].path = stored
        /\ registeredAppImages'[new].id = new
        /\ \A i \in DOMAIN Registry : registeredAppImages'[i] = Registry[i]

\* every write appends its fragment to the buffer of its handle
WritesAccumulate ==
    \A h \in Handles :
        WriteStep(h) => /\ handles'[h].buf = handles[h].buf \o last'.arg
                        /\ last'.ret = "count"
                        /\ last'.cnt = Len(last'.arg)

\* C10 as stated: releasing a handle of /register into which an existing, not
\* yet registered path and a line ending were written adds exactly one entry,
\* whose path is the path written.
C10_ReleaseRegistersWrittenPath ==
    [][/\ WritesAccumulate
       /\ \A h \in Handles, p \in WrittenPaths, le \in LineEndings :
             (/\ ReleaseStep(h)
              /\ handles[h].buf = p \o le
              /\ exists(p, disk)
              /\ HoldersOf(p, Registry) = {})
             => AddsOneEntry(p)]_vars

\* C10 as amended: the path must also be one the process can open, and the
\* entry's path is the absolute form of the path written.
C10_ReleaseRegistersAbsolutePath ==
    [][/\ WritesAccumulate
       /\ \A h \in Handles, p \in WrittenPaths, le \in LineEndings :
             (/\ ReleaseStep(h)
              /\ handles[h].buf = p \o le
              /\ exists(p, disk)
              /\ CanOpen(p, disk)
              /\ HoldersOf(p, Registry) = {})
             => /\ AddsOneEntry(absolute(p))
                /\ last'.inner = "ok"
                /\ ~handles'[h].open]_vars

\* C10 witness: the relative path "a" with a CR LF line ending was written
\* and the release registered "/a".
C10_Witness ==
    /\ last.op = "release"
    /\ last.arg = <<"a", "\r", "\n">>
    /\ last.inner = "ok"
    /\ last.id \in DOMAIN Registry
    /\ Registry[last.id].path = <<"/", "a">>

\* the paths named by the lines of a buffer
PathsOf(buf) == LinesOf(buf) \ {<<>>}

\* the entries the step adds
AddedIds == DOMAIN registeredAppImages' \ DOMAIN Registry

\* C11: releasing a handle of /register into which k lines were written that
\* name k distinct existing files, none of them registered, registers all k:
\* the step adds one entry for each line.
C11_EveryLineIsRegistered ==
    [][\A h \in DOMAIN handles, m \in LineInputs :
          (/\ ReleaseStep(h)
           /\ handles[h].buf = m
           /\ \A p \in PathsOf(m) : /\ is_regular_file(p, disk)
                                    /\ CanOpen(p, disk)
                                    /\ HoldersOf(p, Registry) = {})
          => /\ \A p \in PathsOf(m) :
                   \E i \in AddedIds : registeredAppImages'[i].path = absolute(p)
             /\ Cardinality(AddedIds) = Cardinality(PathsOf(m))]_vars

\* thread t holds an id it took from the counter
HoldsId(t) == threads[t].pc = "emplace" \/ (threads[t].pc = "idle" /\ threads[t].ret = "ok")

\* the step is the insertion of thread t, and it succeeds
EmplaceStep(t) == threads[t].pc = "emplace" /\ threads'[t].pc = "idle" /\ threads'[t].ret = "ok"

\* C12: two registrations of distinct paths that run at once never obtain
\* the same id, and the insertion of each puts its entry into the registry.
C12_ConcurrentIdsDiffer ==
    /\ [](\A t, u \in Threads :
            (t # u /\ HoldsId(t) /\ HoldsId(u) /\ threads[t].path # threads[u].path)
            => threads[t].id # threads[u].id)
    /\ [][\A t \in Threads :
             EmplaceStep(t)
             => /\ threads[t].id \in DOMAIN registeredAppImages'
                /\ registeredAppImages'[threads[t].id].path = absolute(threads[t].path)]_vars

\* C13: whatever the interleaving of registrations and evictions, no two
\* entries of the registry have the same path.
C13_NoTwoEntriesShareAPath ==
    \A i, j \in DOMAIN Registry : i # j => Registry[i].path # Registry[j].path

\* the step is a request on handle h of /register
HandleStep(h, op) == last'.op = op /\ last'.path = RegisterPath /\ last'.h = h

\* the slots that hold an open handle of /register
OpenRegisterHandles(hs) == {k \in DOMAIN hs : hs[k].open /\ hs[k].path = RegisterPath}

\* C14: every open handle of /register has a buffer of its own, which holds
\* the chunks written through that handle, in the order written; a write or
\* a release on a handle leaves the buffers of the other handles alone, and
\* the path a release registers is the one written through its handle.
C14_BuffersArePerHandle ==
    [][/\ \A h, k \in OpenRegisterHandles(handles') :
             /\ handles'[h].buf = handles'[h].written
             /\ h # k => handles'[h].fh # handles'[k].fh
       /\ \A h \in DOMAIN handles :
             /\ HandleStep(h, "write")
                => /\ handles'[h].buf = handles[h].buf \o last'.arg
                   /\ \A k \in DOMAIN handles \ {h} : handles'[k] = handles[k]
             /\ (HandleStep(h, "release") /\ handles[h].open)
                => /\ last'.arg = handles[h].written
                   /\ \A k \in DOMAIN handles \ {h} : handles'[k] = handles[k]
                   /\ last'.inner = "ok"
                      => registeredAppImages'[last'.id].path
                             = absolute(StripLineEnds(handles[h].written))]_vars

\* C14 witness: a release registered the path written through its handle
\* while the other handle was open with other chunks in its buffer.
C14_Witness ==
    /\ last.op = "release"
    /\ last.inner = "ok"
    /\ last.arg = <<"/", "a", "\n">>
    /\ \E k \in OpenRegisterHandles(handles) :
          k # last.h /\ handles[k].buf = <<"a", "\r">>

\* what a call of registerAppImage ends with
RegistrationOutcomes == {"ok", "FileNotFoundError", "AppImageAlreadyRegisteredError",
                         "CouldNotOpenFileError"}

\* C16: a release of a handle of /register returns success whatever the
\* registration ended with, and frees the buffer and clears the slot in every
\* case; a second release of the handle changes nothing.
C16_ReleaseAbsorbsEveryOutcome ==
    [][\A h \in DOMAIN handles :
          /\ (HandleStep(h, "release") /\ handles[h].open
                  /\ ~StripReadsEmpty(handles[h].buf))
             => last'.inner \in RegistrationOutcomes
          /\ (HandleStep(h, "release") /\ handles[h].open
                  /\ last'.inner \in RegistrationOutcomes)
             => /\ last'.ret = "0"
                /\ running'
                /\ handles'[h] = ClosedSlot
                /\ handles[h].fh \notin LiveVectors(handles')
          /\ (HandleStep(h, "release") /\ ~handles[h].open)
             => /\ last'.ret = "0"
                /\ UNCHANGED <<registeredAppImages, counter, fds, handles, running>>]_vars

\* C16 witness: a release whose registration failed with CouldNotOpen, after
\* an earlier one had succeeded, returned success and cleared the slot.
C16_Witness ==
    /\ last.op = "release"
    /\ last.ret = "0"
    /\ last.inner = "CouldNotOpenFileError"
    /\ handles[last.h] = ClosedSlot
    /\ maxReturned >= 0

\* the requests the filesystem-call handlers answer
HandlerOps == {"getattr", "readdir", "open", "read", "write", "truncate", "release"}

\* what a handler hands back to the dispatcher: success, a number of bytes,
\* or an error code
ReturnCodes == {"0", "count", "-ENOENT", "-EIO", "-EPERM", "-1"}

\* C15: every handler ends, for every path, by returning a result or an
\* error code; no exception leaves a handler.
C15_HandlersReturnCodes ==
    last.op \in HandlerOps => running /\ last.ret \in ReturnCodes

\* the mount path looked mounted when the process started
LookedMounted == otherInstanceRunning(startup.mount0)

\* C17: the test for a running instance comes before any teardown: when the
\* mount path looks mounted, startup fails with AlreadyRunning and what is at
\* the mount path stays as it is; the unmount and the removal of the
\* directory happen only where there was nothing to find, and the serve loop
\* is entered only after test and teardown.
C17_CheckComesBeforeTeardown ==
    /\ startup.teardown => ~LookedMounted
    /\ (LookedMounted /\ startup.pc # "start")
       => /\ startup.mount = startup.mount0
          /\ startup.pc # "serving"
    /\ (LookedMounted /\ startup.checked) => startup.err = "AlreadyRunningError"
    /\ startup.pc = "serving" => /\ startup.checked
                                 /\ ~startup.found
                                 /\ startup.teardown

\* the bytes a read has put at the start of the caller's buffer are the
\* bytes of content from offset last.off on
ServesWindowOf(content) ==
    /\ last.ret = "count"
    /\ last.cnt = Min(last.n, Len(content) - last.off)
    /\ \A k \in 1..last.cnt : last.text[k] = content[last.off + k]

\* C18: a read of /map at offset o with buffer size n fails with an I/O error
\* if o is greater than the length L of the map rendered by the read, and
\* otherwise returns min(n, L - o) bytes, the bytes of the map from o on.
C18_MapReadServesWindow ==
    (last.op = "read" /\ last.path = MapPath)
    => IF last.off > Len(last.map) THEN last.ret = "-EIO"
       ELSE ServesWindowOf(last.map)

\* C19: a read of /register at an offset o that is not greater than the
\* length M of the message returns min(n, M - o) bytes, the bytes of the
\* message from o on, at the start of the buffer, whatever was written.
C19_RegisterReadServesMessage ==
    (last.op = "read" /\ last.path = RegisterPath /\ last.off <= Len(REGISTER_MSG))
    => ServesWindowOf(REGISTER_MSG)

\* the entries whose backing file is there as a regular file
Survivors == {i \in DOMAIN Registry : Survives(Registry[i])}

\* C20: a render of the map returns exactly one line for every entry whose
\* backing file exists at the time of the render and no other line, in some
\* order, and leaves exactly those entries in the registry.
C20_RenderKeepsSurvivors ==
    [][RenderStep
       => /\ LinesOf(last'.map)
                = {generateFilenameForId(i) \o Arrow \o Registry[i].path : i \in Survivors}
          /\ CountChar(last'.map, "\n") = Cardinality(Survivors)
          /\ registeredAppImages' = [i \in Survivors |-> Registry[i]]]_vars

\* C20 witness: a render has listed the entry of "/b" and nothing else, after
\* an entry with the id 0 had been registered, whose file is gone.
C20_Witness ==
    /\ last.op = "getattr"
    /\ last.path = MapPath
    /\ LinesOf(last.map) = {generateFilenameForId(1) \o Arrow \o <<"/", "b">>}
    /\ DOMAIN Registry = {1}
    /\ ~exists(<<"/", "a">>, disk)

\* C21: an entry leaves the registry only by the eviction of a stale entry:
\* no step removes an entry whose backing file is there as a regular file,
\* and no step changes the id or the path of an entry that stays.
C21_OnlyStaleEntriesLeave ==
    [][\A i \in DOMAIN Registry :
          /\ Survives(Registry[i]) => i \in DOMAIN registeredAppImages'
          /\ i \in DOMAIN registeredAppImages'
             => /\ registeredAppImages'[i].id = Registry[i].id
                /\ registeredAppImages'[i].path = Registry[i].path]_vars

\* C21 witness: a read through a handle opened on the entry 0 found the
\* entry with its file and left it as it was, after the entry registered
\* next had been evicted.
C21_Witness ==
    /\ last.op = "read"
    /\ last.path = VirtualName(0)
    /\ last.ret = "count"
    /\ DOMAIN Registry = {0}
    /\ Registry[0].path = <<"/", "a">>
    /\ counter = MaxCounter

\* C22: a write whose path is /register appends the whole chunk to the
\* buffer of its handle and returns the length of the chunk; a write to any
\* other path returns NotFound and changes neither the registry nor a buffer.
C22_WriteOnlyToRegister ==
    [][last'.op = "write"
       => IF last'.path = RegisterPath
          THEN /\ last'.ret = "count"
               /\ last'.cnt = Len(last'.arg)
               /\ handles'[last'.h].buf = handles[last'.h].buf \o last'.arg
               /\ UNCHANGED <<registeredAppImages, counter, fds>>
          ELSE /\ last'.ret = "-ENOENT"
               /\ UNCHANGED <<registeredAppImages, counter, fds, handles>>]_vars

\* C22 witness: a write through a handle opened on the name of a registered
\* file was refused.
C22_Witness ==
    /\ last.op = "write"
    /\ last.path = VirtualName(0)
    /\ last.ret = "-ENOENT"
    /\ 0 \in DOMAIN Registry
    /\ handles[last.h].open

\* C23: a truncate of /register returns success, a truncate of any other
\* path a permission error, and both change nothing: the registry and the
\* buffers of the open handles stay, so that a release registers the path
\* made of the chunks written, whatever truncates came in between.
C23_TruncateChangesNothing ==
    [][/\ last'.op = "truncate"
          => /\ last'.ret = IF last'.path = RegisterPath THEN "0" ELSE "-EPERM"
             /\ UNCHANGED <<registeredAppImages, counter, fds, handles, disk>>
       /\ \A h \in DOMAIN handles :
             (HandleStep(h, "release") /\ handles[h].open)
             => /\ last'.arg = handles[h].written
                /\ last'.inner = "ok"
                   => registeredAppImages'[last'.id].path
                          = absolute(StripLineEnds(handles[h].written))]_vars

\* C23 witness: /register was truncated after the first chunk of a path had
\* been written through an open handle.
C23_Witness ==
    /\ last.op = "truncate"
    /\ last.path = RegisterPath
    /\ last.ret = "0"
    /\ \E h \in OpenRegisterHandles(handles) : handles[h].buf = <<"/">>

\* C24: an open of /map succeeds when the flags ask for read-only access and
\* fails with an error code when they ask for write-only or read-write
\* access; either way the registry stays as it is and no buffer is allocated.
C24_MapOpensReadOnly ==
    [][(last'.op = "open" /\ last'.path = MapPath)
       => /\ IF last'.flags = "O_RDONLY"
             THEN /\ last'.ret = "0"
                  /\ handles'[last'.h].open
                  /\ handles'[last'.h].path = MapPath
             ELSE /\ last'.flags \in {"O_WRONLY", "O_RDWR"}
                  /\ last'.ret \in ReturnCodes \ {"0", "count"}
                  /\ handles' = handles
          /\ UNCHANGED <<registeredAppImages, counter, fds>>
          /\ LiveVectors(handles') = LiveVectors(handles)
          /\ running']_vars

\* C24 witness: an open of /map for writing only was refused while an entry
\* was registered.
C24_Witness ==
    /\ last.op = "open"
    /\ last.path = MapPath
    /\ last.flags = "O_WRONLY"
    /\ last.ret = "-ENOENT"
    /\ DOMAIN Registry # {}

\* the names of the ids that successful registrations have returned so far
\* (and of the ids below them)
RegisteredNames == {generateFilenameForId(i) : i \in 0..maxReturned}

\* C25: in no state, the states between the steps of a lookup included, does
\* the registry hold an entry for an id that no successful registration has
\* returned, and no listing of the root directory shows a name for one.
C25_NoEntryWithoutRegistration ==
    /\ \A i \in DOMAIN Registry : i <= maxReturned /\ Registry[i].id = i
    /\ (last.op = "readdir" /\ last.path = RootPath)
       => last.names \subseteq ControlNames \cup RegisteredNames

\* C26: a registration that fails, whatever the failure, leaves the registry
\* and the next id as they were, and each successful registration returns
\* the id following the largest one returned before.
C26_FailedRegisterChangesNothing ==
    [][RegisterStep =>
          /\ last'.ret # "ok" => UNCHANGED <<registeredAppImages, counter>>
          /\ last'.ret = "ok" => last'.id = maxReturned + 1]_vars

\* release of an open /register handle whose buffer is empty or holds line
\* endings only
ReleaseOfBlank(h) ==
    /\ handles[h].open
    /\ handles[h].path = RegisterPath
    /\ StripReadsEmpty(handles[h].buf)
    /\ last'.op = "release" /\ last'.h = h

\* C27: the release of a /register handle whose buffer is empty or holds
\* line endings only returns 0, leaves the process running and leaves the
\* registry and the next id as they were.
C27_BlankReleaseSucceeds ==
    [][\A h \in Handles :
          ReleaseOfBlank(h) =>
              /\ last'.ret = "0"
              /\ running'
              /\ UNCHANGED <<registeredAppImages, counter>>]_vars

\* thread t does the pread of a read whose lookup has succeeded
PreadStep(t) == threads[t].pc = "pread" /\ threads'[t].pc = "idle"

\* the bytes of the reply are those of file f from offset o on, the magic
\* bytes blanked
BytesComeFrom(f, buf, cnt, o) ==
    \A k \in 1..cnt : buf[k] \in {0, FileByte(f, o + k - 1)}

\* C28: the bytes a successful read of a registered file returns are those
\* of the file the entry found by the read's lookup was registered for,
\* whatever other handlers run between the lookup and the pread.
C28_ReadReturnsBytesOfRegisteredFile ==
    [][\A t \in Threads :
          (PreadStep(t) /\ last'.ret = "count")
              => BytesComeFrom(threads[t].file, last'.buf, last'.cnt, last'.off)]_vars

====
